---- MODULE Spec2Model ----
(***************************************************************************)
(* novasql page storage: Pager (src/page.rs) behind Database               *)
(* (src/database.rs).                                                      *)
(*                                                                         *)
(* The backing file is a sequence of bytes with one shared cursor.  Every  *)
(* Database method is a sequence of steps of the calling thread: one step  *)
(* per lock acquisition and per system call (seek, read, write), so that   *)
(* every interleaving the three locks allow is explored.  read_exact and   *)
(* write_all are loops of read/write calls that may each transfer only a   *)
(* part of what is left.                                                   *)
(*                                                                         *)
(* usize is WordBits wide (64 in the build, scaled down here); a seek      *)
(* offset is cast to a signed integer of the same width, so offsets with   *)
(* the top bit set are refused by the seek.  Arithmetic overflow panics    *)
(* when the build has overflow checks (debug profile) and wraps otherwise  *)
(* (release profile): overflow_checks is chosen once, at Init.             *)
(***************************************************************************)
EXTENDS Integers, Sequences, FiniteSets, TLC

\* ---------------------------------------------------------------- bounds
WordBits == 3            \* width of usize (64 in the build)
PAGE_SIZE == 2           \* page::PAGE_SIZE (8 * 1024 in the source), scaled
NumThreads == 2          \* threads sharing the handle

UsizeMod == 2 ^ WordBits           \* usize::MAX + 1
SeekMax == 2 ^ (WordBits - 1)      \* i64::MAX + 1: first offset the seek refuses
Threads == 1 .. NumThreads
Bytes == {1, 2}                    \* bytes callers write; 0 is what a hole reads as
NoThread == 0
PageIds == 0 .. (UsizeMod - 1)     \* every usize value
NoConfig == -1                     \* Option::None for storage.page_size

Min(a, b) == IF a < b THEN a ELSE b
Max(a, b) == IF a > b THEN a ELSE b
Fill(v, n) == [i \in 1 .. n |-> v]

\* ---------------------------------------------------------------- state
VARIABLES
    overflow_checks,  \* build profile: TRUE = arithmetic overflow panics
    file,             \* bytes of the backing file
    filePos,          \* cursor of the one shared File
    fileLock,         \* Pager.file: Mutex<File> owner, NoThread when free
    filePoisoned,     \* Pager.file mutex poisoned by a panic of its holder
    page_size,        \* Pager.page_size
    page_count,       \* Pager.page_count
    pagerReaders,     \* Database.pager: threads holding a read guard
    pagerWriter,      \* Database.pager: thread holding the write guard
    pagerPoisoned,    \* Database.pager poisoned by a panic of a writer
    closed,           \* Database.closed value
    closedWriter,     \* Database.closed: thread holding the write guard
    pc,               \* per thread: position in its current call
    call,             \* per thread: [op, page_id, data] of the current/last call
    offset,           \* per thread: local `offset`
    nbytes,           \* per thread: bytes transferred so far by read_exact/write_all
    buf,              \* per thread: local `data` buffer of Pager::get_page
    result,           \* per thread: what the last call returned
    touched,          \* per thread: the current/last call issued a seek, read or write
    startedClosed,    \* per thread: a close() had returned Ok when the call was made
    committed,        \* file as the last finished write_all left it
    written,          \* per page number: the buffer of its last write_page that returned Ok
    open_page_count,  \* page_count as Pager::new computed it
    config,           \* storage.page_size of the configuration given to open
    opened            \* Database::new_with_config: "no" before it, then "yes", "error" or "panicked"

vars == <<overflow_checks, file, filePos, fileLock, filePoisoned, page_size,
          page_count, pagerReaders, pagerWriter, pagerPoisoned, closed,
          closedWriter, pc, call, offset, nbytes, buf, result, touched,
          startedClosed, committed, written, open_page_count, config, opened>>

buildVars == <<overflow_checks, page_size, open_page_count, config, opened>>
fileVars == <<file, filePos, committed, written>>
pagerLockVars == <<pagerReaders, pagerWriter, pagerPoisoned>>
fileLockVars == <<fileLock, filePoisoned>>
closedVars == <<closed, closedWriter>>
localVars == <<offset, nbytes, buf>>
ghostVars == <<touched, startedClosed>>

\* ---------------------------------------------------------------- results
NoBytes == <<>>
Res(k, e, d, v) == [kind |-> k, io |-> e, data |-> d, val |-> v]
NoResult == Res("None", "", NoBytes, 0)
Ok == Res("Ok", "", NoBytes, 0)                       \* Ok(())
OkPage(d) == Res("Ok", "", d, 0)                      \* Ok(Page { data })
OkVal(v) == Res("Ok", "", NoBytes, v)                 \* a usize
ErrClosed == Res("Closed", "", NoBytes, 0)            \* Err(DatabaseError::Closed)
ErrIo(e) == Res("Io", e, NoBytes, 0)                  \* Err(DatabaseError::Io(e))
Panicked == Res("Panic", "", NoBytes, 0)              \* the thread unwound

NoCall == [op |-> "none", page_id |-> 0, data |-> NoBytes]

\* ---------------------------------------------------------------- open
\* Database::new_with_config: the override if present, else page::PAGE_SIZE.
ResolvePageSize(cfg) == IF cfg = NoConfig THEN PAGE_SIZE ELSE cfg

\* Mutant of OpenPageCount: the division rounds up, counting a partial page.
OpenPageCountRoundedUp(len, ps) == (len + ps - 1) \div ps

\* Pager::new: page_count = (metadata.len() as usize) / page_size
OpenPageCount(len, ps) == len \div ps

Configs == {NoConfig, PAGE_SIZE + 1}
InitFiles == {Fill(1, n) : n \in 0 .. (2 * PAGE_SIZE + 1)}

InitWith(cfgs, files, builds) ==
    /\ overflow_checks \in builds
    /\ file \in files
    /\ config \in cfgs
    /\ opened = "yes"
    /\ page_size = ResolvePageSize(config)
    /\ page_count = OpenPageCount(Len(file), page_size)
    /\ filePos = 0
    /\ fileLock = NoThread
    /\ filePoisoned = FALSE
    /\ pagerReaders = {}
    /\ pagerWriter = NoThread
    /\ pagerPoisoned = FALSE
    /\ closed = FALSE
    /\ closedWriter = NoThread
    /\ pc = [t \in Threads |-> "idle"]
    /\ call = [t \in Threads |-> NoCall]
    /\ offset = [t \in Threads |-> 0]
    /\ nbytes = [t \in Threads |-> 0]
    /\ buf = [t \in Threads |-> NoBytes]
    /\ result = [t \in Threads |-> NoResult]
    /\ touched = [t \in Threads |-> FALSE]
    /\ startedClosed = [t \in Threads |-> FALSE]
    /\ committed = file
    /\ written = [n \in PageIds |-> NoBytes]
    /\ open_page_count = page_count

\* The state before Database::new_with_config has run: a file (missing counts
\* as empty: it is created), a configuration, no handle.
BeforeOpen(cfgs, files, builds) ==
    /\ overflow_checks \in builds
    /\ file \in files
    /\ config \in cfgs
    /\ opened = "no"
    /\ page_size = 0
    /\ page_count = 0
    /\ filePos = 0
    /\ fileLock = NoThread
    /\ filePoisoned = FALSE
    /\ pagerReaders = {}
    /\ pagerWriter = NoThread
    /\ pagerPoisoned = FALSE
    /\ closed = FALSE
    /\ closedWriter = NoThread
    /\ pc = [t \in Threads |-> "idle"]
    /\ call = [t \in Threads |-> NoCall]
    /\ offset = [t \in Threads |-> 0]
    /\ nbytes = [t \in Threads |-> 0]
    /\ buf = [t \in Threads |-> NoBytes]
    /\ result = [t \in Threads |-> NoResult]
    /\ touched = [t \in Threads |-> FALSE]
    /\ startedClosed = [t \in Threads |-> FALSE]
    /\ committed = file
    /\ written = [n \in PageIds |-> NoBytes]
    /\ open_page_count = 0

\* Database::new_with_config and Pager::new.  The open of the path may fail
\* (Err(Io)); the division panics when the resolved page size is 0; otherwise
\* the handle exists, not closed, with the page count of the file as found.
NewWithConfig ==
    /\ opened = "no"
    /\ \E io_ok \in BOOLEAN :
        IF ~io_ok
        THEN /\ opened' = "error"
             /\ UNCHANGED <<page_size, page_count, open_page_count>>
        ELSE IF ResolvePageSize(config) = 0
        THEN /\ opened' = "panicked"
             /\ UNCHANGED <<page_size, page_count, open_page_count>>
        ELSE /\ opened' = "yes"
             /\ page_size' = ResolvePageSize(config)
             /\ page_count' = OpenPageCount(Len(file), ResolvePageSize(config))
             /\ open_page_count' = page_count'
    /\ UNCHANGED <<overflow_checks, config, fileVars, pagerLockVars, fileLockVars,
                   closedVars, pc, call, localVars, result, ghostVars>>

\* ---------------------------------------------------------------- helpers
\* A call of thread t ends with result r: its locals are dropped.
Return(t, r) ==
    /\ pc' = [pc EXCEPT ![t] = IF r.kind = "Panic" THEN "panicked" ELSE "idle"]
    /\ result' = [result EXCEPT ![t] = r]
    /\ offset' = [offset EXCEPT ![t] = 0]
    /\ nbytes' = [nbytes EXCEPT ![t] = 0]
    /\ buf' = [buf EXCEPT ![t] = NoBytes]

\* Guards of thread t are dropped (end of scope, `?` return or unwinding).  A
\* guard dropped while panicking poisons its lock; RwLock read guards do not.
DropPager(t, panicking) ==
    /\ pagerReaders' = pagerReaders \ {t}
    /\ pagerWriter' = IF pagerWriter = t THEN NoThread ELSE pagerWriter
    /\ pagerPoisoned' = (pagerPoisoned \/ (panicking /\ pagerWriter = t))

DropFile(t, panicking) ==
    /\ fileLock' = IF fileLock = t THEN NoThread ELSE fileLock
    /\ filePoisoned' = (filePoisoned \/ (panicking /\ fileLock = t))

\* The caller starts a call; nothing of the method body has run yet.
Invoke(t, c) ==
    /\ pc[t] = "idle"
    /\ call' = [call EXCEPT ![t] = c]
    /\ pc' = [pc EXCEPT ![t] =
                CASE c.op = "close" -> "c_lock"
                  [] c.op = "get_page" -> "g_check"
                  [] c.op = "write_page" -> "w_check"
                  [] c.op = "page_count" -> "m_count"
                  [] OTHER -> "m_size"]
    /\ result' = [result EXCEPT ![t] = NoResult]
    /\ touched' = [touched EXCEPT ![t] = FALSE]
    /\ startedClosed' = [startedClosed EXCEPT ![t] = closed]
    /\ UNCHANGED <<buildVars, fileVars, page_count, pagerLockVars, fileLockVars,
                   closedVars, localVars>>

\* ---------------------------------------------------------------- close
\* Database::close, line 51: self.closed.write().unwrap()
CloseLock(t) ==
    /\ pc[t] = "c_lock"
    /\ closedWriter = NoThread
    /\ closedWriter' = t
    /\ pc' = [pc EXCEPT ![t] = "c_set"]
    /\ UNCHANGED <<buildVars, fileVars, page_count, pagerLockVars, fileLockVars,
                   closed, call, localVars, result, ghostVars>>

\* Mutant of CloseSet: the `if *closed` test is missing, every close is Ok.
CloseSetUnchecked(t) ==
    /\ pc[t] = "c_set"
    /\ closed' = TRUE
    /\ closedWriter' = NoThread
    /\ Return(t, Ok)
    /\ UNCHANGED <<buildVars, fileVars, page_count, pagerLockVars, fileLockVars,
                   call, ghostVars>>

\* Database::close, lines 52-56: Err(Closed) if already closed, else set it.
CloseSet(t) ==
    /\ pc[t] = "c_set"
    /\ closed' = TRUE
    /\ closedWriter' = NoThread
    /\ Return(t, IF closed THEN ErrClosed ELSE Ok)
    /\ UNCHANGED <<buildVars, fileVars, page_count, pagerLockVars, fileLockVars,
                   call, ghostVars>>

\* ---------------------------------------------------------------- shared pieces
\* A step of thread t inside a call: new position and locals, no result yet.
Step(t, p, off, nb, b) ==
    /\ pc' = [pc EXCEPT ![t] = p]
    /\ offset' = [offset EXCEPT ![t] = off]
    /\ nbytes' = [nbytes EXCEPT ![t] = nb]
    /\ buf' = [buf EXCEPT ![t] = b]
    /\ UNCHANGED result

\* Mutant of ClosedCheck: the flag is read but the call goes on regardless.
ClosedCheckIgnored(t, next) ==
    /\ closedWriter = NoThread
    /\ Step(t, next, offset[t], nbytes[t], buf[t])

\* `if *self.closed.read().unwrap() { return Err(DatabaseError::Closed); }`
\* The read guard is a temporary of the condition: taken, read and dropped.
ClosedCheck(t, next) ==
    /\ closedWriter = NoThread
    /\ IF closed
       THEN Return(t, ErrClosed)
       ELSE Step(t, next, offset[t], nbytes[t], buf[t])

\* RwLock::read / RwLock::write on Database.pager, Mutex::lock on Pager.file.
CanRead(t) == pagerWriter = NoThread
CanWrite(t) == pagerWriter = NoThread /\ pagerReaders = {}
\* Mutant of CanLockFile: the file is used without taking its mutex.
CanLockFileAlways(t) == TRUE
CanLockFile(t) == fileLock = NoThread

\* `(page_num * self.page_size) as u64`
OffsetOverflows(n) == n * page_size >= UsizeMod
\* Mutant of PageOffset: the page number is used as the byte offset.
PageOffsetUnscaled(n) == n % UsizeMod
PageOffset(n) == (n * page_size) % UsizeMod

\* file.seek(SeekFrom::Start(offset)): the offset goes to the OS as a signed
\* integer, and a negative one is refused (InvalidInput).
SeekOk(off) == off < SeekMax

\* data.len() != self.page_size
LenOk(d) == Len(d) = page_size

\* read_exact / write_all return once page_size bytes went through: n before
\* this call, k by it.
\* Mutant of ReadDone: one read() instead of read_exact.
ReadDoneAfterOne(n, k) == TRUE
ReadDone(n, k) == n + k = page_size
WriteDone(n, k) == n + k = page_size

\* What one read() call may return with avail bytes before EOF: 0 at EOF.
ReadSizes(avail, want) == IF avail <= 0 THEN {0} ELSE 1 .. Min(avail, want)

\* Bytes k of the file from position pos.
ReadAt(f, pos, k) == [i \in 1 .. k |-> f[pos + i]]

\* The file after bytes are written at pos; a gap past the old end reads as 0.
WriteAt(f, pos, bytes) ==
    [i \in 1 .. Max(Len(f), pos + Len(bytes)) |->
        IF i > pos /\ i <= pos + Len(bytes) THEN bytes[i - pos]
        ELSE IF i <= Len(f) THEN f[i] ELSE 0]

\* `if page_num >= self.page_count { self.page_count = page_num + 1; }`
CountOverflows(n) == n >= page_count /\ n + 1 >= UsizeMod
\* Mutant of NewPageCount: the `page_num >= self.page_count` test is missing.
NewPageCountAlways(n) == (n + 1) % UsizeMod
NewPageCount(n) == IF n >= page_count THEN (n + 1) % UsizeMod ELSE page_count

\* ---------------------------------------------------------------- get_page
\* Database::get_page, lines 60-62
GetCheck(t) ==
    /\ pc[t] = "g_check"
    /\ ClosedCheck(t, "g_pager")
    /\ UNCHANGED <<buildVars, fileVars, page_count, pagerLockVars, fileLockVars,
                   closedVars, call, ghostVars>>

\* Database::get_page, line 63: self.pager.read().unwrap()
GetPagerRead(t) ==
    /\ pc[t] = "g_pager"
    /\ CanRead(t)
    /\ IF pagerPoisoned
       THEN /\ Return(t, Panicked)
            /\ UNCHANGED pagerReaders
       ELSE /\ pagerReaders' = pagerReaders \cup {t}
            /\ Step(t, "g_file", offset[t], nbytes[t], buf[t])
    /\ UNCHANGED <<buildVars, fileVars, page_count, pagerWriter, pagerPoisoned,
                   fileLockVars, closedVars, call, ghostVars>>

\* Pager::get_page, lines 33-35: lock the file, allocate, compute the offset.
GetFileLock(t) ==
    /\ pc[t] = "g_file"
    /\ CanLockFile(t)
    /\ IF filePoisoned
       THEN /\ Return(t, Panicked)
            /\ DropPager(t, TRUE)
            /\ UNCHANGED fileLockVars
       ELSE IF OffsetOverflows(call[t].page_id) /\ overflow_checks
       THEN /\ Return(t, Panicked)
            /\ DropPager(t, TRUE)
            /\ filePoisoned' = TRUE
            /\ UNCHANGED fileLock
       ELSE /\ fileLock' = t
            /\ Step(t, "g_seek", PageOffset(call[t].page_id), 0, Fill(0, page_size))
            /\ UNCHANGED <<pagerLockVars, filePoisoned>>
    /\ UNCHANGED <<buildVars, fileVars, page_count, closedVars, call, ghostVars>>

\* Pager::get_page, line 36: file.seek(SeekFrom::Start(offset))?
GetSeek(t) ==
    /\ pc[t] = "g_seek"
    /\ fileLock = t
    /\ touched' = [touched EXCEPT ![t] = TRUE]
    /\ IF SeekOk(offset[t])
       THEN /\ filePos' = offset[t]
            /\ Step(t, "g_read", offset[t], 0, buf[t])
            /\ UNCHANGED <<pagerLockVars, fileLockVars>>
       ELSE /\ Return(t, ErrIo("InvalidInput"))
            /\ DropFile(t, FALSE)
            /\ DropPager(t, FALSE)
            /\ UNCHANGED filePos
    /\ UNCHANGED <<buildVars, file, committed, written, page_count, closedVars, call,
                   startedClosed>>

\* Pager::get_page, lines 37-38: one read() call of read_exact; Ok(Page) when
\* the buffer is full, UnexpectedEof when a read returns 0.
GetRead(t) ==
    /\ pc[t] = "g_read"
    /\ fileLock = t
    /\ \E k \in ReadSizes(Len(file) - filePos, page_size - nbytes[t]) :
        LET got == [i \in 1 .. page_size |->
                       IF i > nbytes[t] /\ i <= nbytes[t] + k
                       THEN file[filePos + (i - nbytes[t])] ELSE buf[t][i]]
        IN  IF k = 0
            THEN /\ Return(t, ErrIo("UnexpectedEof"))
                 /\ DropFile(t, FALSE)
                 /\ DropPager(t, FALSE)
                 /\ UNCHANGED filePos
            ELSE IF ReadDone(nbytes[t], k)
            THEN /\ Return(t, OkPage(got))
                 /\ DropFile(t, FALSE)
                 /\ DropPager(t, FALSE)
                 /\ filePos' = filePos + k
            ELSE /\ Step(t, "g_read", offset[t], nbytes[t] + k, got)
                 /\ filePos' = filePos + k
                 /\ UNCHANGED <<pagerLockVars, fileLockVars>>
    /\ UNCHANGED <<buildVars, file, committed, written, page_count, closedVars, call,
                   ghostVars>>

\* ---------------------------------------------------------------- write_page
\* Database::write_page, lines 68-70
WriteCheck(t) ==
    /\ pc[t] = "w_check"
    /\ ClosedCheck(t, "w_pager")
    /\ UNCHANGED <<buildVars, fileVars, page_count, pagerLockVars, fileLockVars,
                   closedVars, call, ghostVars>>

\* Database::write_page, line 71: self.pager.write().unwrap(), then
\* Pager::write_page, lines 42-44: the length check, before the file is locked.
WritePagerWrite(t) ==
    /\ pc[t] = "w_pager"
    /\ CanWrite(t)
    /\ IF pagerPoisoned
       THEN /\ Return(t, Panicked)
            /\ UNCHANGED pagerWriter
       ELSE IF ~LenOk(call[t].data)
       THEN /\ Return(t, ErrIo("InvalidInput"))
            /\ UNCHANGED pagerWriter
       ELSE /\ pagerWriter' = t
            /\ Step(t, "w_file", offset[t], nbytes[t], buf[t])
    /\ UNCHANGED <<buildVars, fileVars, page_count, pagerReaders, pagerPoisoned,
                   fileLockVars, closedVars, call, ghostVars>>

\* Pager::write_page, lines 45-46: lock the file, compute the offset.
WriteFileLock(t) ==
    /\ pc[t] = "w_file"
    /\ CanLockFile(t)
    /\ IF filePoisoned
       THEN /\ Return(t, Panicked)
            /\ DropPager(t, TRUE)
            /\ UNCHANGED fileLockVars
       ELSE IF OffsetOverflows(call[t].page_id) /\ overflow_checks
       THEN /\ Return(t, Panicked)
            /\ DropPager(t, TRUE)
            /\ filePoisoned' = TRUE
            /\ UNCHANGED fileLock
       ELSE /\ fileLock' = t
            /\ Step(t, "w_seek", PageOffset(call[t].page_id), 0, buf[t])
            /\ UNCHANGED <<pagerLockVars, filePoisoned>>
    /\ UNCHANGED <<buildVars, fileVars, page_count, closedVars, call, ghostVars>>

\* Pager::write_page, line 47: file.seek(SeekFrom::Start(offset))?
WriteSeek(t) ==
    /\ pc[t] = "w_seek"
    /\ fileLock = t
    /\ touched' = [touched EXCEPT ![t] = TRUE]
    /\ IF SeekOk(offset[t])
       THEN /\ filePos' = offset[t]
            /\ Step(t, "w_write", offset[t], 0, buf[t])
            /\ UNCHANGED <<pagerLockVars, fileLockVars>>
       ELSE /\ Return(t, ErrIo("InvalidInput"))
            /\ DropFile(t, FALSE)
            /\ DropPager(t, FALSE)
            /\ UNCHANGED filePos
    /\ UNCHANGED <<buildVars, file, committed, written, page_count, closedVars, call,
                   startedClosed>>

\* Pager::write_page, lines 48-52: one write() call of write_all; after the
\* last one the page count is raised and the guards are dropped.
WriteWrite(t) ==
    /\ pc[t] = "w_write"
    /\ fileLock = t
    /\ \E k \in 1 .. (page_size - nbytes[t]) :
        /\ file' = WriteAt(file, filePos, SubSeq(call[t].data, nbytes[t] + 1, nbytes[t] + k))
        /\ filePos' = filePos + k
        /\ IF ~WriteDone(nbytes[t], k)
           THEN /\ Step(t, "w_write", offset[t], nbytes[t] + k, buf[t])
                /\ UNCHANGED <<page_count, pagerLockVars, fileLockVars, committed, written>>
           ELSE /\ committed' = file'
                /\ IF CountOverflows(call[t].page_id) /\ overflow_checks
                   THEN /\ Return(t, Panicked)
                        /\ DropFile(t, TRUE)
                        /\ DropPager(t, TRUE)
                        /\ UNCHANGED <<page_count, written>>
                   ELSE /\ Return(t, Ok)
                        /\ DropFile(t, FALSE)
                        /\ DropPager(t, FALSE)
                        /\ page_count' = NewPageCount(call[t].page_id)
                        /\ written' = [written EXCEPT ![call[t].page_id] = call[t].data]
    /\ UNCHANGED <<buildVars, closedVars, call, ghostVars>>

\* ---------------------------------------------------------------- I/O failures
\* file.seek(..)? fails for a reason of the device (page.rs:36, :47): the `?`
\* returns the error, the guards are dropped, nothing else has happened.
SeekFail(t) ==
    /\ pc[t] \in {"g_seek", "w_seek"}
    /\ fileLock = t
    /\ touched' = [touched EXCEPT ![t] = TRUE]
    /\ Return(t, ErrIo("Other"))
    /\ DropFile(t, FALSE)
    /\ DropPager(t, FALSE)
    /\ UNCHANGED <<buildVars, fileVars, page_count, closedVars, call, startedClosed>>

\* file.read_exact(..)? fails (page.rs:37): bytes read so far are dropped with
\* the buffer.
ReadFail(t) ==
    /\ pc[t] = "g_read"
    /\ fileLock = t
    /\ Return(t, ErrIo("Other"))
    /\ DropFile(t, FALSE)
    /\ DropPager(t, FALSE)
    /\ UNCHANGED <<buildVars, fileVars, page_count, closedVars, call, ghostVars>>

\* Mutant of WriteFail: page_count is raised before the write instead of
\* after it.
WriteFailCounted(t) ==
    /\ pc[t] = "w_write"
    /\ fileLock = t
    /\ Return(t, ErrIo("Other"))
    /\ DropFile(t, FALSE)
    /\ DropPager(t, FALSE)
    /\ committed' = file
    /\ page_count' = NewPageCount(call[t].page_id)
    /\ UNCHANGED <<buildVars, file, filePos, written, closedVars, call, ghostVars>>

\* file.write_all(data)? fails (page.rs:48): the bytes earlier write() calls
\* of the loop put in the file stay there; lines 49-51 are not reached.
WriteFail(t) ==
    /\ pc[t] = "w_write"
    /\ fileLock = t
    /\ Return(t, ErrIo("Other"))
    /\ DropFile(t, FALSE)
    /\ DropPager(t, FALSE)
    /\ committed' = file
    /\ UNCHANGED <<buildVars, file, filePos, written, page_count, closedVars, call,
                   ghostVars>>

\* ---------------------------------------------------------------- accessors
\* Database::page_count / Database::page_size: self.pager.read().unwrap().x()
MetaRead(t) ==
    /\ pc[t] \in {"m_count", "m_size"}
    /\ CanRead(t)
    /\ Return(t, IF pagerPoisoned THEN Panicked
                 ELSE IF pc[t] = "m_count" THEN OkVal(page_count)
                 ELSE OkVal(page_size))
    /\ UNCHANGED <<buildVars, fileVars, page_count, pagerLockVars, fileLockVars,
                   closedVars, call, ghostVars>>

\* ---------------------------------------------------------------- inputs
Op(o) == [op |-> o, page_id |-> 0, data |-> NoBytes]
GetCall(n) == [op |-> "get_page", page_id |-> n, data |-> NoBytes]
WriteCall(n, b) == [op |-> "write_page", page_id |-> n, data |-> b]

\* Buffers a caller passes: a full page of each byte, and one byte short or long.
GoodBuffers == {Fill(v, page_size) : v \in Bytes}
Buffers == GoodBuffers \cup {Fill(1, page_size - 1), Fill(1, page_size + 1)}

Calls(ids, bufs) ==
    {Op("close"), Op("page_count"), Op("page_size")}
    \cup {GetCall(n) : n \in ids}
    \cup {WriteCall(n, b) : n \in ids, b \in bufs}

\* One step of thread t of any call in progress.
Body(t) ==
    \/ CloseLock(t)
    \/ CloseSet(t)
    \/ GetCheck(t)
    \/ GetPagerRead(t)
    \/ GetFileLock(t)
    \/ GetSeek(t)
    \/ GetRead(t)
    \/ WriteCheck(t)
    \/ WritePagerWrite(t)
    \/ WriteFileLock(t)
    \/ WriteSeek(t)
    \/ WriteWrite(t)
    \/ MetaRead(t)

\* ---------------------------------------------------------------- specifications
\* Page numbers that reach every outcome of the offset computation: the first
\* pages, the lowest one the seek refuses, the lowest one whose offset wraps
\* onto a valid offset, and usize::MAX.
Refused(n) == ~OffsetOverflows(n) /\ ~SeekOk(PageOffset(n))
Aliased(n) == OffsetOverflows(n) /\ SeekOk(PageOffset(n))
Lowest(S) == {n \in S : \A m \in S : n <= m}
EdgeIds ==
    {0, 1, 2} \cup Lowest({n \in PageIds : Refused(n)})
              \cup Lowest({n \in PageIds : Aliased(n)})
              \cup {UsizeMod - 1}

\* Spec: one caller, any sequence of calls, every kind of page number and buffer.
Init == InitWith(Configs, InitFiles, BOOLEAN)

Next ==
    \/ \E c \in Calls(EdgeIds, Buffers) : Invoke(1, c)
    \/ Body(1)

Spec == Init /\ [][Next]_vars

\* SpecOpen: as Spec, from before the open; the configuration may also carry 0.
InitOpen == BeforeOpen(Configs \cup {0}, InitFiles, BOOLEAN)

NextOpen ==
    \/ NewWithConfig
    \/ opened = "yes" /\ \E c \in Calls(EdgeIds, Buffers) : Invoke(1, c)
    \/ Body(1)

SpecOpen == InitOpen /\ [][NextOpen]_vars

\* SpecFaults: one thread, default page size, and any seek, read or write may
\* fail.
InitFaults == InitWith({NoConfig}, {Fill(1, n) : n \in {0, PAGE_SIZE}}, BOOLEAN)

NextFaults ==
    \/ \E c \in Calls({0, 1}, Buffers) : Invoke(1, c)
    \/ Body(1)
    \/ SeekFail(1)
    \/ ReadFail(1)
    \/ WriteFail(1)

SpecFaults == InitFaults /\ [][NextFaults]_vars

\* SpecConc: two threads each make any sequence of calls on the first two pages of
\* a store opened with the default page size over a new or a one-page file.
InitConc == InitWith({NoConfig}, {Fill(1, n) : n \in {0, PAGE_SIZE}}, {FALSE})

NextConc ==
    \E t \in {1, 2} :
        \/ \E c \in Calls({0, 1}, GoodBuffers) : Invoke(t, c)
        \/ Body(t)

SpecConc == InitConc /\ [][NextConc]_vars

\* SpecFair: two threads each make any sequence of calls on page 0 and on the
\* first page number whose offset wraps, over a new file, in either build; a
\* thread inside a call that can take a step again and again takes one.
InitFair == InitWith({NoConfig}, {NoBytes}, BOOLEAN)

NextFair ==
    \E t \in {1, 2} :
        \/ \E c \in Calls({0} \cup Lowest({n \in PageIds : Aliased(n)}),
                            {Fill(1, PAGE_SIZE)}) : Invoke(t, c)
        \/ Body(t)

SpecFair == InitFair /\ [][NextFair]_vars /\ \A t \in {1, 2} : SF_vars(Body(t))

\* SpecWriters: the concurrent-writers scenario.  Thread t writes page t - 1
\* once, with any full-size buffer; when every writer has returned, thread t
\* reads page t - 1 back.  The store is opened over a new file or over one
\* that already holds more pages than there are threads.
InitWriters ==
    InitWith({NoConfig}, {Fill(1, n * PAGE_SIZE) : n \in {0, NumThreads + 1}}, BOOLEAN)

StartWrite(t) ==
    /\ call[t].op = "none"
    /\ \E b \in GoodBuffers : Invoke(t, WriteCall(t - 1, b))

StartRead(t) ==
    /\ call[t].op = "write_page"
    /\ \A u \in Threads : call[u].op # "none" /\ (call[u].op = "write_page" => pc[u] = "idle")
    /\ Invoke(t, GetCall(t - 1))

NextWriters ==
    \E t \in Threads :
        \/ StartWrite(t)
        \/ WriteCheck(t)
        \/ WritePagerWrite(t)
        \/ WriteFileLock(t)
        \/ WriteSeek(t)
        \/ WriteWrite(t)
        \/ StartRead(t)
        \/ GetCheck(t)
        \/ GetPagerRead(t)
        \/ GetFileLock(t)
        \/ GetSeek(t)
        \/ GetRead(t)

SpecWriters == InitWriters /\ [][NextWriters]_vars

\* ---------------------------------------------------------------- claims
\* Thread t's last call was op and has returned (or unwound).
Returned(t, o) == call[t].op = o /\ pc[t] \in {"idle", "panicked"}

\* The page_size bytes the code addresses as page n of file f.
PageOf(f, n) == ReadAt(f, PageOffset(n), page_size)

\* C1 (as claimed): on an open handle, once write_page(n, b) has returned Ok,
\* every get_page(n) returns Ok with exactly b until a later write_page to
\* page n returns Ok.
C1_RoundTrip ==
    \A t \in Threads :
        (Returned(t, "get_page") /\ ~closed /\ written[call[t].page_id] # NoBytes)
            => result[t] = OkPage(written[call[t].page_id])

\* C2: a get_page or write_page called after a close() has returned Ok never
\* gets past its closed check: it returns Err(Closed), issues no seek, read
\* or write, and so changes neither the file nor page_count.
C2_ClosedFailsFast ==
    \A t \in Threads :
        (startedClosed[t] /\ call[t].op \in {"get_page", "write_page"})
            => /\ ~touched[t]
               /\ \/ pc[t] \in {"g_check", "w_check"}
                  \/ pc[t] = "idle" /\ result[t] = ErrClosed

C2_Witness ==
    \E t \in Threads, u \in Threads :
        /\ startedClosed[t] /\ Returned(t, "write_page") /\ result[t] = ErrClosed
        /\ startedClosed[u] /\ Returned(u, "get_page") /\ result[u] = ErrClosed

\* The error kind get_page and write_page return on a closed handle.
ClosedHandleKind == ErrClosed.kind

\* C3 (as claimed): a close() called after a close() has returned Ok fails,
\* leaves the handle closed, and its error kind is not the closed-handle kind
\* of get_page/write_page.
C3_DistinctCloseError ==
    \A t \in Threads :
        (startedClosed[t] /\ Returned(t, "close"))
            => closed /\ result[t].kind \notin {"Ok", ClosedHandleKind}

\* C3 (amended): closed is false at open; once true it stays true; a close()
\* called after a close() has returned Ok fails with Err(Closed), the same
\* kind get_page/write_page return, and leaves the handle closed.
C3_CloseOnce ==
    /\ ~closed
    /\ [][closed => closed']_vars
    /\ [](\A t \in Threads :
            (startedClosed[t] /\ Returned(t, "close"))
                => closed /\ result[t] = ErrClosed)

C3_Witness ==
    \E t \in Threads :
        startedClosed[t] /\ Returned(t, "close") /\ result[t] = ErrClosed /\ closed

\* C4 (as claimed): once a close() has returned Ok, no step of a write_page
\* changes a byte of the file or page_count.
C4_NoWriteAfterClose ==
    [][closed => (file' = file /\ page_count' = page_count)]_vars

\* C5 (as claimed): a write_page on an open handle with a buffer whose length
\* is not page_size fails with a validation error that is not of the I/O kind,
\* without a seek or a write.
C5_InvalidSizeKind ==
    \A t \in Threads :
        (Returned(t, "write_page") /\ ~LenOk(call[t].data) /\ ~closed)
            => /\ result[t].kind \notin {"Ok", ErrIo("").kind}
               /\ ~touched[t]

\* C6: a write_page(n, b) that returns Ok leaves page_count = n + 1 if n was
\* at or above page_count and leaves it unchanged otherwise; no step of any
\* call lowers page_count.
C6_PageCountGrows ==
    [][/\ page_count' >= page_count
       /\ \A t \in Threads :
            (pc[t] = "w_write" /\ pc'[t] = "idle" /\ result'[t] = Ok)
                => page_count' = IF call[t].page_id >= page_count
                                 THEN call[t].page_id + 1
                                 ELSE page_count]_vars

C6_Witness ==
    \E t \in Threads :
        /\ Returned(t, "write_page") /\ result[t] = Ok
        /\ page_count = call[t].page_id + 1
        /\ page_count > open_page_count

\* C7 (as claimed): a get_page(n) on an open handle whose byte range
\* [n * page_size, (n + 1) * page_size) is not inside the file fails with the
\* UnexpectedEof I/O error.
C7_ShortRead ==
    \A t \in Threads :
        (Returned(t, "get_page") /\ ~closed
            /\ (call[t].page_id + 1) * page_size > Len(file))
            => result[t] = ErrIo("UnexpectedEof")

\* Every thread of the writers scenario has read its page back.
AllRead == \A t \in Threads : Returned(t, "get_page")

\* Every write of the scenario returned Ok and every read returned its bytes.
AllRoundTrip ==
    \A t \in Threads :
        written[t - 1] # NoBytes /\ result[t] = OkPage(written[t - 1])

\* C8 (as claimed): when NumThreads threads have each written their own page
\* 0 .. NumThreads - 1 and read it back, every write returned Ok, every read
\* returned the bytes written, and page_count is NumThreads.
C8_CountIsN == AllRead => (AllRoundTrip /\ page_count = NumThreads)

\* C8 (amended): ... and page_count is the larger of NumThreads and the page
\* count the store was opened with.
C8_Writers == AllRead => (AllRoundTrip /\ page_count = Max(NumThreads, open_page_count))

C8_Witness ==
    /\ AllRead
    /\ AllRoundTrip
    /\ open_page_count = 0
    /\ \E t \in Threads, u \in Threads : written[t - 1] # written[u - 1]

\* C9: a get_page(n) that returns Ok returns the whole page n as the last
\* finished write left it: the content before a concurrent write_page(n, b)
\* or all of b, never part of each.
C9_NoPartialRead ==
    [][\A t \in Threads :
         (pc[t] = "g_read" /\ pc'[t] = "idle" /\ result'[t].kind = "Ok")
             => result'[t].data = PageOf(committed', call[t].page_id)]_vars

\* A read of page n has returned while a write_page of other bytes to the
\* same page was waiting for the pager lock.
C9_Witness ==
    \E t \in Threads, u \in Threads :
        /\ Returned(t, "get_page") /\ result[t].kind = "Ok"
        /\ call[u].op = "write_page" /\ pc[u] = "w_pager"
        /\ call[u].page_id = call[t].page_id
        /\ call[u].data # result[t].data

\* No write_page has returned Ok since the open.
NothingWritten == \A n \in PageIds : written[n] = NoBytes

\* C11: a successful open leaves the file as it found it and sets page_count
\* to floor(file length / page_size), so 0 for a missing or empty file, and
\* trailing bytes short of a page are not counted; as long as nothing has been
\* written, get_page(page_count) fails.
C11_OpenPageCount ==
    /\ [][(opened = "no" /\ opened' = "yes")
            => /\ file' = file
               /\ page_size' > 0
               /\ page_count' * page_size' <= Len(file)
               /\ Len(file) < (page_count' + 1) * page_size']_vars
    /\ [](\A t \in Threads :
            (Returned(t, "get_page") /\ ~closed /\ NothingWritten
                /\ call[t].page_id = page_count)
                => result[t].kind = "Io")

\* Opened over a file with trailing bytes; get_page(page_count) has failed.
C11_Witness ==
    /\ opened = "yes"
    /\ NothingWritten
    /\ Len(file) > page_count * page_size
    /\ \E t \in Threads :
        /\ Returned(t, "get_page") /\ call[t].page_id = page_count
        /\ result[t] = ErrIo("UnexpectedEof")

\* C12 (as claimed): for every page size the configuration can carry, every
\* page number and every buffer, neither the open nor any call panics.
C12_NeverPanics ==
    /\ opened # "panicked"
    /\ \A t \in Threads : pc[t] # "panicked" /\ result[t] # Panicked

\* C13 (as claimed): page_size never changes; a page_size() or page_count()
\* called after a close() has returned Ok returns Ok, page_size() with the size
\* resolved at open, page_count() with the count, and the count is still the
\* one from before the close: no step changes page_count once closed is set.
C13_AccessorsAfterClose ==
    /\ [][page_size' = page_size]_vars
    /\ [][closed => page_count' = page_count]_vars
    /\ [](\A t \in Threads :
            /\ (startedClosed[t] /\ Returned(t, "page_size"))
                    => result[t] = OkVal(ResolvePageSize(config))
            /\ (startedClosed[t] /\ Returned(t, "page_count"))
                    => result[t].kind = "Ok")

\* C14 (as claimed): page_count * page_size never exceeds the file length.
C14_CountWithinFile ==
    opened = "yes" => page_count * page_size <= Len(file)

\* C15 (as claimed): on an open handle every get_page(n) with n below
\* page_count returns Ok with a page of page_size bytes.
C15_BelowCountReadable ==
    \A t \in Threads :
        (Returned(t, "get_page") /\ ~closed /\ call[t].page_id < page_count)
            => result[t].kind = "Ok" /\ Len(result[t].data) = page_size

\* The step is one of thread t's current call.
StepOf(t) == pc'[t] # pc[t] \/ nbytes'[t] # nbytes[t]

\* C16: no step of a get_page or write_page call changes page_size or closed,
\* and none changes page_count except the step that returns Ok from
\* write_page; so a call that returns an error (closed handle, wrong length,
\* failed seek, read or write) leaves all three as they were when it began.
C16_ErrorLeavesState ==
    [][\A t \in Threads :
         (call[t].op \in {"get_page", "write_page"} /\ pc[t] # "idle" /\ StepOf(t))
             => /\ page_size' = page_size
                /\ closed' = closed
                /\ (page_count' # page_count
                        => call[t].op = "write_page" /\ result'[t] = Ok)]_vars

\* A write_page failed in write_all after part of its buffer reached the file.
C16_Witness ==
    \E t \in Threads :
        /\ Returned(t, "write_page") /\ result[t] = ErrIo("Other")
        /\ call[t].page_id = page_count
        /\ Len(file) = page_count * page_size + 1
        /\ file[Len(file)] = 2

\* C17: the offset a call seeks to is page_id * page_size, not wrapped, so
\* page n lies at bytes [n*page_size, (n+1)*page_size); and page_count never
\* gets smaller.
C17_ExactOffset ==
    /\ [](\A t \in Threads :
            pc[t] \in {"g_seek", "g_read", "w_seek", "w_write"}
                => offset[t] = call[t].page_id * page_size)
    /\ [][page_count' >= page_count]_vars

\* The step returns Ok from thread t's write_page.
WriteReturnsOk(t) ==
    /\ call[t].op = "write_page" /\ pc[t] = "w_write" /\ result'[t] = Ok

\* C19: when write_page(n, b) returns Ok, every other page m below the old
\* page_count that was wholly in the file reads as it did before the call.
C19_OtherPagesKept ==
    [][\A t \in Threads :
         WriteReturnsOk(t) =>
            \A m \in PageIds :
                (m # call[t].page_id /\ m < page_count
                    /\ (m + 1) * page_size <= Len(committed))
                    => PageOf(file', m) = PageOf(committed, m)]_vars

\* C20: a write_page that starts with page_count = floor(file length /
\* page_size) and returns Ok ends with page_count = floor(file length /
\* page_size), so a reopen would compute the page_count the handle holds.
C20_ReopenSameCount ==
    [][\A t \in Threads :
         (WriteReturnsOk(t) /\ page_count = OpenPageCount(Len(committed), page_size))
             => page_count' = OpenPageCount(Len(file'), page_size)]_vars

\* C18: every call a thread has begun returns; the closed-flag lock is held
\* only inside close(), never by a thread waiting for the pager lock; and a
\* thread holding the file lock holds the pager lock.
C18_EveryCallReturns ==
    /\ [](\A t \in Threads :
            /\ closedWriter = t => pc[t] = "c_set"
            /\ fileLock = t => (t \in pagerReaders \/ pagerWriter = t))
    /\ \A t \in Threads : (pc[t] # "idle") ~> (pc[t] = "idle")

\* Threads between their seek and the end of their read or write.
InFileSection == {t \in Threads : pc[t] \in {"g_seek", "g_read", "w_seek", "w_write"}}

\* C10: at most one call is between its seek and the end of its read/write,
\* and while it transfers bytes the file cursor is at the offset it computed
\* plus the bytes it has transferred.
C10_SeekAndTransfer ==
    /\ Cardinality(InFileSection) <= 1
    /\ \A t \in Threads :
        pc[t] \in {"g_read", "w_write"}
            => fileLock = t /\ filePos = offset[t] + nbytes[t]

\* Two readers hold the pager lock together: one is reading, the other waits
\* for the file lock to read another page.
C10_Witness ==
    \E t \in Threads, u \in Threads :
        /\ {t, u} \subseteq pagerReaders
        /\ pc[t] = "g_read" /\ nbytes[t] > 0
        /\ pc[u] = "g_file"
        /\ call[t].page_id # call[u].page_id
====
